---- MODULE Spec2Model ----
(***************************************************************************)
(* Moodify: the three variants of the Home page (live backend, mock,       *)
(* premium).  The state is the React state of the component, the actions   *)
(* are its event handlers and the continuation of analyze() after the      *)
(* awaited prediction call.  React flushes the state updates of one        *)
(* handler (and of one async continuation) in a single render, so each     *)
(* handler is one atomic step.                                             *)
(***************************************************************************)
EXTENDS Integers, Sequences, FiniteSets, TLC

(* ------------------------------ bounds --------------------------------- *)
\* longest text the user types, in characters
MaxLen == 2
\* cap on the number of analyze() calls awaiting their response
MaxPending == 2

(* --------------------------- JSON-like values -------------------------- *)
Undef == [t |-> "undefined"]
JNull == [t |-> "null"]
NaN == [t |-> "nan"]
Str(s) == [t |-> "str", s |-> s]

Abs(n) == IF n < 0 THEN -n ELSE n

RECURSIVE GCD(_, _)
GCD(a, b) == IF b = 0 THEN a ELSE GCD(b, a % b)

\* a finite number, kept as a fraction in lowest terms
Num(n, d) == LET g == GCD(Abs(n), d) IN [t |-> "num", n |-> n \div g, d |-> d \div g]

IsNaN(x) == x.t = "nan"

DivBy(x, k) == IF x.t = "num" THEN Num(x.n, x.d * k) ELSE NaN
Times(x, k) == IF x.t = "num" THEN Num(x.n * k, x.d) ELSE NaN
Leq(x, y) == x.t = "num" /\ y.t = "num" /\ x.n * y.d <= y.n * x.d
InUnit(x) == Leq(Num(0, 1), x) /\ Leq(x, Num(1, 1))

\* JavaScript truthiness of a value
Truthy(v) ==
  CASE v.t = "undefined" -> FALSE
    [] v.t = "null" -> FALSE
    [] v.t = "nan" -> FALSE
    [] v.t = "str" -> Len(v.s) > 0
    [] v.t = "num" -> v.n # 0
    [] OTHER -> TRUE

(* ------------------------------- text ---------------------------------- *)
Chars == {" ", "\n", "a"}
IsSpace(c) == c \in {" ", "\n", "\t"}

RECURSIVE TrimStart(_)
TrimStart(s) == IF s # <<>> /\ IsSpace(Head(s)) THEN TrimStart(Tail(s)) ELSE s

RECURSIVE TrimEnd(_)
TrimEnd(s) ==
  IF s # <<>> /\ IsSpace(s[Len(s)]) THEN TrimEnd(SubSeq(s, 1, Len(s) - 1)) ELSE s

\* String.prototype.trim on a sequence of characters
Trim(s) == TrimEnd(TrimStart(s))

Texts == UNION {[1..n -> Chars] : n \in 0..MaxLen}

(* ----------------------------- parseFloat ------------------------------ *)
Digits == {"0", "1", "2", "3", "4", "5", "6", "7", "8", "9"}
DigitVal(c) ==
  CASE c = "0" -> 0 [] c = "1" -> 1 [] c = "2" -> 2 [] c = "3" -> 3 [] c = "4" -> 4
    [] c = "5" -> 5 [] c = "6" -> 6 [] c = "7" -> 7 [] c = "8" -> 8 [] c = "9" -> 9

RECURSIVE DigitPrefix(_)
DigitPrefix(s) ==
  IF s # <<>> /\ Head(s) \in Digits THEN <<Head(s)>> \o DigitPrefix(Tail(s)) ELSE <<>>

RECURSIVE DigitsValue(_)
DigitsValue(ds) ==
  IF ds = <<>> THEN 0 ELSE 10 * DigitsValue(SubSeq(ds, 1, Len(ds) - 1)) + DigitVal(ds[Len(ds)])

RECURSIVE Pow10(_)
Pow10(k) == IF k = 0 THEN 1 ELSE 10 * Pow10(k - 1)

\* parseFloat on a sequence of characters: leading white space, an optional
\* sign, digits, an optional fraction; NaN when no digit is found
ParseFloat(cs) ==
  LET s0 == TrimStart(cs)
      neg == s0 # <<>> /\ Head(s0) = "-"
      s1 == IF s0 # <<>> /\ Head(s0) \in {"-", "+"} THEN Tail(s0) ELSE s0
      ip == DigitPrefix(s1)
      r1 == SubSeq(s1, Len(ip) + 1, Len(s1))
      fp == IF r1 # <<>> /\ Head(r1) = "." THEN DigitPrefix(Tail(r1)) ELSE <<>>
      mag == DigitsValue(ip \o fp)
  IN IF ip = <<>> /\ fp = <<>> THEN NaN
     ELSE Num(IF neg THEN -mag ELSE mag, Pow10(Len(fp)))

\* parseFloat(v) for a value that is not a number: String(v) is parsed
ParseFloatOf(v) == IF v.t = "str" THEN ParseFloat(v.s) ELSE NaN

(* ------------------------------ toFixed(1) ----------------------------- *)
\* (x).toFixed(1) for x >= 0, in tenths.  The double nearest to x decides an
\* exact tie, so both neighbours are possible there.
ToFixed1(x) ==
  LET f == (10 * x.n) \div x.d
      r == 10 * x.n - f * x.d
  IN IF 2 * r < x.d THEN {f} ELSE IF 2 * r > x.d THEN {f + 1} ELSE {f, f + 1}

(* ------------------------------ mood tables ---------------------------- *)
DefaultColor == "from-blue-100 to-purple-100"
DefaultEmoji == "U+1F604"

PolarityEmojis ==
  [k \in {"positive", "negative", "mildly positive", "mildly negative", "neutral"} |->
     CASE k = "positive" -> "U+1F604"
       [] k = "negative" -> "U+1F622"
       [] k = "mildly positive" -> "U+1F642"
       [] k = "mildly negative" -> "U+1F641"
       [] k = "neutral" -> "U+1F610"]

PolarityColors ==
  [k \in {"positive", "negative", "mildly positive", "mildly negative", "neutral"} |->
     CASE k = "mildly positive" -> "from-yellow-300 to-yellow-500"
       [] k = "mildly negative" -> "from-blue-300 to-blue-500"
       [] k = "positive" -> "from-green-300 to-green-500"
       [] k = "negative" -> "from-red-300 to-red-500"
       [] k = "neutral" -> "from-gray-300 to-gray-500"]

EmotionKeys ==
  {"happy", "sad", "angry", "anxious", "excited", "relaxed", "neutral",
   "surprised", "tired", "loved", "playful", "confident"}

EmotionEmojis ==
  [k \in EmotionKeys |->
     CASE k = "happy" -> "U+1F604" [] k = "sad" -> "U+1F622" [] k = "angry" -> "U+1F620"
       [] k = "anxious" -> "U+1F630" [] k = "excited" -> "U+1F929"
       [] k = "relaxed" -> "U+1F60C" [] k = "neutral" -> "U+1F610"
       [] k = "surprised" -> "U+1F632" [] k = "tired" -> "U+1F634"
       [] k = "loved" -> "U+1F970" [] k = "playful" -> "U+1F61C"
       [] k = "confident" -> "U+1F60E"]

EmotionColors ==
  [k \in EmotionKeys |->
     CASE k = "happy" -> "from-yellow-300 to-yellow-500"
       [] k = "sad" -> "from-blue-300 to-blue-500"
       [] k = "angry" -> "from-red-400 to-red-600"
       [] k = "anxious" -> "from-purple-400 to-purple-600"
       [] k = "excited" -> "from-orange-300 to-orange-500"
       [] k = "relaxed" -> "from-green-300 to-green-500"
       [] k = "neutral" -> "from-gray-300 to-gray-500"
       [] k = "surprised" -> "from-pink-300 to-pink-500"
       [] k = "tired" -> "from-indigo-300 to-indigo-500"
       [] k = "loved" -> "from-rose-300 to-rose-500"
       [] k = "playful" -> "from-cyan-300 to-cyan-500"
       [] k = "confident" -> "from-teal-300 to-teal-500"]

moodEmojis(v) == IF v = "mock" THEN EmotionEmojis ELSE PolarityEmojis
moodColors(v) == IF v = "live" THEN PolarityColors ELSE EmotionColors

\* table[key] || fallback, for a key that may be any value
Lookup(table, key, fallback) ==
  IF key.t = "str" /\ key.s \in DOMAIN table THEN table[key.s] ELSE fallback

\* String.prototype.toLowerCase on the mood labels of the model
ToLowerCase(s) ==
  CASE s = "Happy" -> "happy"
    [] s = "POSITIVE" -> "positive"
    [] s = "Mildly Positive" -> "mildly positive"
    [] OTHER -> s

(* --------------------------- backend outcomes -------------------------- *)
Variants == {"live", "mock", "premium"}

\* the reasons fetch() rejects with, as the browsers word them
NetMsgs == {"Failed to fetch", "Load failed"}

MoodVals ==
  {Undef, Str(""), Str("Happy"), Str("neutral"), Str("Mildly Positive"), Num(5, 1)}

PredVals ==
  {Undef, JNull,
   Num(-1, 1), Num(0, 1), Num(1, 1), Num(2, 1), Num(3, 1), Num(4, 1), Num(5, 1),
   Num(1, 100),
   Str(<<"3">>), Str(<<"a">>), Str(<<" ", "2", ".", "5", "x">>)}

ScoreVals == {Undef, Num(1, 2), Num(7, 1)}

Bodies ==
  {[t |-> "malformed"], JNull}
    \cup {[t |-> "obj", mood |-> m, prediction |-> p, score |-> Undef] :
            m \in MoodVals, p \in PredVals}
    \cup {[t |-> "obj", mood |-> m, prediction |-> Undef, score |-> s] :
            m \in MoodVals, s \in ScoreVals}

\* what the awaited calls of analyze() deliver: fetch rejects, or it resolves
\* with a status and a body
Outcomes ==
  {[kind |-> "neterr", msg |-> m] : m \in NetMsgs}
    \cup {[kind |-> "http", ok |-> FALSE, status |-> st, statusText |-> stt, text |-> tx] :
            st \in {404, 500}, stt \in {"", "Error"}, tx \in {"", "oops"}}
    \cup {[kind |-> "http", ok |-> TRUE, body |-> b] : b \in Bodies}

\* the five canned results of the mock variant
mockResponses ==
  <<[t |-> "obj", mood |-> Str("happy"), score |-> Num(92, 100), prediction |-> Undef],
    [t |-> "obj", mood |-> Str("sad"), score |-> Num(87, 100), prediction |-> Undef],
    [t |-> "obj", mood |-> Str("excited"), score |-> Num(95, 100), prediction |-> Undef],
    [t |-> "obj", mood |-> Str("relaxed"), score |-> Num(89, 100), prediction |-> Undef],
    [t |-> "obj", mood |-> Str("anxious"), score |-> Num(91, 100), prediction |-> Undef]>>

MockOutcomes == {[kind |-> "mock", idx |-> i] : i \in 1..Len(mockResponses)}

NoRes == [kind |-> "none"]

Set(r) == [ok |-> TRUE, result |-> r, error |-> ""]
Throw(msg) == [ok |-> FALSE, result |-> JNull, error |-> msg]

\* the conversion dividing by the number of classes instead of the top class
LiveScoreDiv5(p) == IF p.t = "num" THEN DivBy(p, 5) ELSE DivBy(ParseFloatOf(p), 5)

\* the score the live variant derives from data.prediction
LiveScore(p) == IF p.t = "num" THEN DivBy(p, 4) ELSE DivBy(ParseFloatOf(p), 4)

\* the live try block without its isNaN(score) test
LiveNormalizeNoNaNCheck(o) ==
  IF o.kind = "neterr" THEN Throw(o.msg)
  ELSE IF ~o.ok
    THEN Throw("Backend error: " \o ToString(o.status) \o " - "
                 \o (IF o.text # "" THEN o.text ELSE o.statusText))
  ELSE IF o.body.t = "malformed" THEN Throw("Unexpected token < in JSON at position 0")
  ELSE IF o.body.t = "null" THEN Throw("Cannot read properties of null (reading 'mood')")
  ELSE IF ~Truthy(o.body.mood) \/ o.body.prediction.t = "undefined"
    THEN Throw("Unexpected response format from backend")
  ELSE IF o.body.mood.t # "str" THEN Throw("data.mood.toLowerCase is not a function")
  ELSE Set([t |-> "obj", mood |-> Str(ToLowerCase(o.body.mood.s)),
            score |-> LiveScore(o.body.prediction), prediction |-> Undef])

\* the try block of the live analyze(): what it stores or what it throws
LiveNormalize(o) ==
  IF o.kind = "neterr" THEN Throw(o.msg)
  ELSE IF ~o.ok
    THEN Throw("Backend error: " \o ToString(o.status) \o " - "
                 \o (IF o.text # "" THEN o.text ELSE o.statusText))
  ELSE IF o.body.t = "malformed" THEN Throw("Unexpected token < in JSON at position 0")
  ELSE IF o.body.t = "null" THEN Throw("Cannot read properties of null (reading 'mood')")
  ELSE IF ~Truthy(o.body.mood) \/ o.body.prediction.t = "undefined"
    THEN Throw("Unexpected response format from backend")
  ELSE IF IsNaN(LiveScore(o.body.prediction)) THEN Throw("Invalid prediction value")
  ELSE IF o.body.mood.t # "str" THEN Throw("data.mood.toLowerCase is not a function")
  ELSE Set([t |-> "obj", mood |-> Str(ToLowerCase(o.body.mood.s)),
            score |-> LiveScore(o.body.prediction), prediction |-> Undef])

\* the try block of the premium analyze(): the body is stored as it is
PremiumNormalize(o) ==
  IF o.kind = "neterr" \/ ~o.ok \/ o.body.t = "malformed"
    THEN Throw("Something went wrong. Please try again.")
    ELSE Set(o.body)

\* the try block of the mock analyze(): the timer never rejects
MockNormalize(o) == Set(mockResponses[o.idx])

(* -------------------------------- state -------------------------------- *)
\* variant: which of the three pages runs; text, result, loading, error,
\* moodColor, activeMood: the useState cells; inflight: the analyze() calls
\* suspended at their await; res: the response the last continuation of
\* analyze() consumed; lastKey: the keyboard event handleKeyDown was last
\* called with, when it was the last handler to run
VARIABLES variant, text, result, loading, error, moodColor, activeMood, inflight, res,
          lastKey

vars ==
  <<variant, text, result, loading, error, moodColor, activeMood, inflight, res, lastKey>>

NoKey == [key |-> "", shiftKey |-> FALSE]

Init ==
  /\ variant \in Variants
  /\ text = <<>>
  /\ result = JNull
  /\ loading = FALSE
  /\ error = ""
  /\ moodColor = DefaultColor
  /\ activeMood = ""
  /\ inflight = 0
  /\ res = NoRes
  /\ lastKey = NoKey

\* the effect on [result]: a result with a mood selects the gradient (and, in
\* the mock variant, the active chip)
EffectColor(r) ==
  IF r.t = "obj" /\ Truthy(r.mood) THEN Lookup(moodColors(variant), r.mood, DefaultColor)
  ELSE moodColor

EffectActive(r) ==
  IF variant = "mock" /\ r.t = "obj" /\ Truthy(r.mood) THEN r.mood.s ELSE activeMood

\* analyze() without its setError("")
analyzeKeepError ==
  /\ inflight < MaxPending
  /\ loading' = TRUE
  /\ result' = JNull
  /\ inflight' = inflight + 1
  /\ res' = NoRes
  /\ UNCHANGED <<variant, text, error, moodColor, activeMood>>

\* analyze() up to its first await; res, the response of the call, is not
\* bound yet
analyze ==
  /\ inflight < MaxPending
  /\ loading' = TRUE
  /\ error' = ""
  /\ result' = JNull
  /\ inflight' = inflight + 1
  /\ res' = NoRes
  /\ UNCHANGED <<variant, text, moodColor, activeMood>>

\* the textarea without its disabled attribute
setTextWhileLoading ==
  /\ \E t \in Texts : text' = t
  /\ lastKey' = NoKey
  /\ UNCHANGED <<variant, result, loading, error, moodColor, activeMood, inflight, res>>

\* onChange of the textarea, which is disabled while loading
setText ==
  /\ ~loading
  /\ \E t \in Texts : text' = t
  /\ lastKey' = NoKey
  /\ UNCHANGED <<variant, result, loading, error, moodColor, activeMood, inflight, res>>

\* the button without its blank-text guard
SubmitEnabledAnyText == ~loading

\* the button without its loading guard
SubmitEnabledWhileLoading == Trim(text) # <<>>

\* onClick of the submit button, which is disabled while loading or blank
SubmitEnabled == ~(loading \/ ~(Trim(text) # <<>>))

clickSubmit == SubmitEnabled /\ analyze /\ lastKey' = NoKey

Keys == {"Enter", "a"}

\* the handler without its shiftKey test
handleKeyDownAnyShift(key, shiftKey) ==
  /\ lastKey' = [key |-> key, shiftKey |-> shiftKey]
  /\ IF key = "Enter" /\ Trim(text) # <<>> /\ ~loading
       THEN analyze
       ELSE UNCHANGED <<variant, text, result, loading, error, moodColor, activeMood,
                        inflight, res>>

\* the handler without its text.trim() test
handleKeyDownAnyText(key, shiftKey) ==
  /\ lastKey' = [key |-> key, shiftKey |-> shiftKey]
  /\ IF key = "Enter" /\ ~shiftKey /\ ~loading
       THEN analyze
       ELSE UNCHANGED <<variant, text, result, loading, error, moodColor, activeMood,
                        inflight, res>>

\* the keydown handler of the textarea
handleKeyDown(key, shiftKey) ==
  /\ lastKey' = [key |-> key, shiftKey |-> shiftKey]
  /\ IF key = "Enter" /\ ~shiftKey /\ Trim(text) # <<>> /\ ~loading
       THEN analyze
       ELSE UNCHANGED <<variant, text, result, loading, error, moodColor, activeMood,
                        inflight, res>>

keyDown == \E key \in Keys, shiftKey \in BOOLEAN : handleKeyDown(key, shiftKey)

Normalize(o) ==
  CASE variant = "live" -> LiveNormalize(o)
    [] variant = "premium" -> PremiumNormalize(o)
    [] variant = "mock" -> MockNormalize(o)

\* the continuation with a catch block that only logs
completeNoSetError(o) ==
  LET n == Normalize(o)
      r == IF n.ok THEN n.result ELSE result
  IN /\ inflight > 0
     /\ res' = o
     /\ result' = r
     /\ error' = error
     /\ loading' = FALSE
     /\ inflight' = inflight - 1
     /\ moodColor' = IF n.ok THEN EffectColor(r) ELSE moodColor
     /\ activeMood' = IF n.ok THEN EffectActive(r) ELSE activeMood
     /\ lastKey' = NoKey
     /\ UNCHANGED <<variant, text>>

\* the continuation of analyze() once the awaited call has settled: the rest
\* of the try block, the catch, the finally, and the effect on [result]
complete(o) ==
  LET n == Normalize(o)
      r == IF n.ok THEN n.result ELSE result
  IN /\ inflight > 0
     /\ res' = o
     /\ result' = r
     /\ error' = IF n.ok THEN error ELSE n.error
     /\ loading' = FALSE
     /\ inflight' = inflight - 1
     /\ moodColor' = IF n.ok THEN EffectColor(r) ELSE moodColor
     /\ activeMood' = IF n.ok THEN EffectActive(r) ELSE activeMood
     /\ lastKey' = NoKey
     /\ UNCHANGED <<variant, text>>

settle == \E o \in (IF variant = "mock" THEN MockOutcomes ELSE Outcomes) : complete(o)

\* where the variant offers its reset control
ResetOffered ==
  CASE variant = "live" -> error # "" \/ Truthy(result)
    [] variant = "premium" -> Truthy(result)
    [] variant = "mock" -> FALSE

\* a resetForm that also puts the gradient back to its initial value
resetFormResetsColor ==
  /\ ResetOffered
  /\ text' = <<>>
  /\ result' = JNull
  /\ error' = ""
  /\ moodColor' = DefaultColor
  /\ lastKey' = NoKey
  /\ UNCHANGED <<variant, loading, activeMood, inflight, res>>

\* resetForm of the live and premium variants
resetForm ==
  /\ ResetOffered
  /\ text' = <<>>
  /\ result' = JNull
  /\ error' = ""
  /\ lastKey' = NoKey
  /\ UNCHANGED <<variant, loading, moodColor, activeMood, inflight, res>>

\* 'Try another analysis' of the mock variant
tryAnother ==
  /\ variant = "mock"
  /\ Truthy(result)
  /\ result' = JNull
  /\ lastKey' = NoKey
  /\ UNCHANGED <<variant, text, loading, error, moodColor, activeMood, inflight, res>>

ChipMoods == {"happy", "excited", "relaxed", "playful", "confident"}
ChipText(mood) == <<"I'm feeling", " ", mood, " ", "today">>

\* a mood chip of the mock variant, shown while there is no result and no call
clickChip ==
  /\ variant = "mock"
  /\ ~Truthy(result) /\ ~loading
  /\ \E mood \in ChipMoods :
       /\ text' = ChipText(mood)
       /\ activeMood' = mood
       /\ moodColor' = Lookup(moodColors(variant), Str(mood), DefaultColor)
  /\ lastKey' = NoKey
  /\ UNCHANGED <<variant, result, loading, error, inflight, res>>

Next == setText \/ clickSubmit \/ keyDown \/ settle \/ resetForm \/ tryAnother \/ clickChip

Spec == Init /\ [][Next]_vars

(* ------------------------------- claims -------------------------------- *)
Blank == Trim(text) = <<>>
EnterKey == [key |-> "Enter", shiftKey |-> FALSE]
ShiftEnterKey == [key |-> "Enter", shiftKey |-> TRUE]

\* C1: no step starts a prediction call while the trimmed text is empty, and
\* a call in flight was started for a non-blank text
C1_NoCallOnBlankText ==
  [][inflight' > inflight => (~Blank /\ text' = text)]_vars

\* a whitespace-only text on which Enter was pressed, with no call started
C1_Witness == text # <<>> /\ Blank /\ lastKey = EnterKey /\ inflight = 0 /\ ~loading

\* C2: Enter without Shift on a non-blank text while not loading starts
\* exactly one analyze call; every other keydown starts none
C2_EnterStartsOne ==
  [][lastKey' # NoKey =>
       IF lastKey' = EnterKey /\ ~Blank /\ ~loading
         THEN inflight' = inflight + 1 /\ loading'
         ELSE inflight' = inflight /\ loading' = loading]_vars

\* Enter has just started the one call in flight
C2_Witness == lastKey = EnterKey /\ inflight = 1 /\ loading /\ ~Blank

\* Shift+Enter on a non-blank text has started nothing
C2_WitnessShift == lastKey = ShiftEnterKey /\ inflight = 0 /\ ~loading /\ ~Blank

\* C3: at most one prediction call is in flight, and one is in flight exactly
\* while loading
C3_AtMostOneInFlight == inflight <= 1 /\ (loading <=> inflight = 1)

\* a call is in flight and Shift+Enter was pressed meanwhile
C3_Witness == loading /\ inflight = 1 /\ lastKey = ShiftEnterKey

\* C4: at most one of loading, result non-null, error non-empty holds
C4_ExclusivePresentation ==
  /\ ~(loading /\ result # JNull)
  /\ ~(loading /\ error # "")
  /\ ~(result # JNull /\ error # "")

\* a new call in flight after an earlier analysis had stored a result
C4_Witness == loading /\ result = JNull /\ error = "" /\ moodColor # DefaultColor

\* an analysis that ended in an error, no call in flight
C4_WitnessError == ~loading /\ result = JNull /\ error # "" /\ res # NoRes

\* C5: the reset control of every variant clears text, result and error
C5_ResetClearsAll ==
  [][(resetForm \/ tryAnother) => (text' = <<>> /\ result' = JNull /\ error' = "")]_vars

\* the step in which an analysis ends: the continuation of analyze() ran
Ends == loading /\ ~loading'

Failed(o) == o.kind = "neterr" \/ (o.kind = "http" /\ ~o.ok)
IsBody(o) == o.kind = "http" /\ o.ok /\ o.body.t = "obj"

\* C6: in the live and premium variants a network failure or a non-2xx
\* status ends the analysis with error non-empty, result null, loading false
C6_FailureEndsInError ==
  [][(variant \in {"live", "premium"} /\ Ends /\ Failed(res'))
       => (error' # "" /\ result' = JNull /\ ~loading')]_vars

\* a non-2xx status has ended an analysis of the premium variant in an error
C6_Witness ==
  /\ variant = "premium" /\ res.kind = "http" /\ ~res.ok
  /\ error # "" /\ result = JNull /\ ~loading

\* a rejected fetch has ended an analysis of the live variant in an error
C6_WitnessNet == variant = "live" /\ res.kind = "neterr" /\ error = res.msg /\ ~loading

\* C7: in the live and premium variants a 2xx response whose body has no
\* mood field ends the analysis with error non-empty and result null
C7_NoMoodEndsInError ==
  [][(variant \in {"live", "premium"} /\ Ends /\ IsBody(res')
        /\ res'.body.mood.t = "undefined")
       => (error' # "" /\ result' = JNull)]_vars

InRange04(p) == p.t = "num" /\ Leq(Num(0, 1), p) /\ Leq(p, Num(4, 1))

\* a 2xx body with a non-empty string mood and a number from 0 to 4
GoodBody(o) ==
  /\ IsBody(o)
  /\ o.body.mood.t = "str" /\ o.body.mood.s # ""
  /\ InRange04(o.body.prediction)

\* the percentage shown for a score, in tenths of a percent
Shown(r) == ToFixed1(Times(r.score, 100))

\* C8: in the live variant a response with a mood and a number p from 0 to 4
\* is never rejected, the score stored for it is p/4 and lies in [0,1], and
\* the confidence shown is p*25 percent to one decimal (exactly p*25 when
\* that has one decimal; 100.0 for p = 4)
C8_ScoreIsQuarter ==
  (variant = "live" /\ ~loading /\ GoodBody(res)) =>
    LET p == res.body.prediction IN
      /\ error = ""
      /\ result # JNull =>
           /\ result.score.t = "num"
           /\ 4 * result.score.n * p.d = p.n * result.score.d
           /\ InUnit(result.score)
           /\ \A sh \in Shown(result) : 2 * Abs(sh * p.d - 250 * p.n) <= p.d
           /\ (250 * p.n) % p.d = 0 => Shown(result) = {(250 * p.n) \div p.d}
           /\ p = Num(4, 1) => Shown(result) = {1000}

\* prediction 4 stored as score 1 and shown as 100.0%
C8_Witness ==
  /\ variant = "live" /\ GoodBody(res) /\ res.body.prediction = Num(4, 1)
  /\ result # JNull /\ result.score = Num(1, 1) /\ Shown(result) = {1000}

\* a prediction that is no integer: 0.01 stored as 0.0025, shown as 0.2 or 0.3
C8_WitnessFraction ==
  /\ variant = "live" /\ GoodBody(res) /\ res.body.prediction = Num(1, 100)
  /\ result # JNull /\ result.score = Num(1, 400) /\ Shown(result) = {2, 3}

\* C9: every stored result has a score between 0 and 1
C9_ScoreInUnit == result # JNull => InUnit(result.score)

\* the prediction field is there and gives no number
NoNumber(p) ==
  p.t = "null" \/ (p.t = "str" /\ IsNaN(ParseFloat(p.s)))

\* C10: in the live variant a response whose prediction is present but
\* yields no number is rejected: error non-empty, result null
C10_NaNRejected ==
  [][(variant = "live" /\ Ends /\ IsBody(res') /\ NoNumber(res'.body.prediction))
       => (error' # "" /\ result' = JNull)]_vars

\* a response with a mood and the prediction "a" was rejected for its value
C10_Witness ==
  /\ variant = "live" /\ ~loading /\ IsBody(res)
  /\ Truthy(res.body.mood) /\ res.body.prediction = Str(<<"a">>)
  /\ error = "Invalid prediction value" /\ result = JNull

(* ---------------------------- presentation ----------------------------- *)
\* the key the emoji table is indexed with: result.mood?.toLowerCase() in the
\* live and premium variants, result.mood in the mock variant
EmojiKey(r) ==
  IF variant # "mock" /\ r.mood.t = "str" THEN Str(ToLowerCase(r.mood.s)) ELSE r.mood

\* the key the effect indexes the gradient table with: result.mood
ColorKey(r) == r.mood

\* the emoji the result card renders; a truthy mood that is no string has no
\* toLowerCase and the render throws
EmojiShown(r) ==
  IF variant # "mock" /\ Truthy(r.mood) /\ r.mood.t # "str" THEN "TypeError"
  ELSE Lookup(moodEmojis(variant), EmojiKey(r), DefaultEmoji)

\* table[label], or the fallback for a label without an entry
EntryOf(table, label, fallback) == IF label \in DOMAIN table THEN table[label] ELSE fallback

\* a result whose mood came from a string label of the backend is on display
LabelStored == result # JNull /\ IsBody(res) /\ res.body.mood.t = "str" /\ result.mood.t = "str"

\* C11: in the live and premium variants the stored mood is the lowercased
\* backend label, and the emoji and gradient lookups use the same key
C11_MoodStoredLowercase ==
  (variant \in {"live", "premium"} /\ LabelStored) =>
    /\ result.mood.s = ToLowerCase(res.body.mood.s)
    /\ EmojiKey(result) = ColorKey(result)

\* C12: the emoji shown is the moodEmojis entry of the stored label and the
\* gradient is its moodColors entry, each with its static default for a label
\* without an entry
C12_LookupByStoredLabel ==
  (result # JNull /\ result.mood.t = "str" /\ result.mood.s # "") =>
    /\ EmojiShown(result) = EntryOf(moodEmojis(variant), result.mood.s, DefaultEmoji)
    /\ moodColor = EntryOf(moodColors(variant), result.mood.s, DefaultColor)

\* the textarea accepts input: it is not disabled
TextareaEnabled == ~loading

\* C13: whenever an error is displayed the text can be edited, a non-blank
\* text can be submitted, and a try-again control that resets to idle is
\* offered
C13_ErrorKeepsFormUsable ==
  error # "" =>
    /\ TextareaEnabled
    /\ ~Blank => SubmitEnabled
    /\ ResetOffered

\* which block the page renders
St ==
  IF loading THEN "loading"
  ELSE IF result # JNull THEN "success"
  ELSE IF error # "" THEN "error"
  ELSE "idle"

\* C14 as stated: loading is entered only from idle, and success and error
\* are left only by the reset control, back to idle
C14_LoadingOnlyFromIdle ==
  [][/\ (St' = "loading" /\ St # "loading") => St = "idle"
     /\ (St \in {"success", "error"} /\ St' # St) =>
          (St' = "idle" /\ (resetForm \/ tryAnother))]_vars

\* C14 as amended: loading is entered by a submission of a non-blank text,
\* from idle, success or error; success and error are left only by the reset
\* control back to idle or by a new submission into loading
C14_SubmissionFlow ==
  [][/\ (St' = "loading" /\ St # "loading") =>
          (~Blank /\ inflight' = inflight + 1 /\ text' = text)
     /\ (St \in {"success", "error"} /\ St' # St) =>
          \/ St' = "idle" /\ (resetForm \/ tryAnother)
          \/ St' = "loading" /\ inflight' = inflight + 1]_vars

\* the live page back in idle after an analysis: only its reset leads there
C14_Witness == variant = "live" /\ St = "idle" /\ res # NoRes /\ text = <<>>

\* C15: every analysis whose call settles ends with loading false and exactly
\* one of result non-null and error non-empty
C15_EndsWithOneOutcome ==
  [][Ends => (~loading' /\ ((result' # JNull) # (error' # "")))]_vars

\* C16: while loading, no step but the completion of the call changes text,
\* result, error or loading; without a completion the page stays in loading
C16_InertWhileLoading ==
  [][loading =>
       \/ inflight' = inflight - 1
       \/ (text' = text /\ result' = result /\ error' = error /\ loading'
             /\ inflight' = inflight)]_vars

\* a key was pressed while the call is in flight, and nothing moved
C16_Witness ==
  loading /\ inflight = 1 /\ lastKey = [key |-> "a", shiftKey |-> FALSE] /\ res = NoRes

\* C17: the variants make the same transitions over text, result, loading
\* and error: the premium completion stores what the live completion stores
\* and fails where it fails, and every variant's reset control does what
\* resetForm does
C17_SameTransitions ==
  [][/\ (Ends /\ variant = "premium") =>
          LET n == LiveNormalize(res') IN
            /\ result' = IF n.ok THEN n.result ELSE JNull
            /\ (error' # "") = ~n.ok
     /\ (resetForm \/ tryAnother) => (text' = <<>> /\ result' = JNull /\ error' = "")]_vars

\* a click on a mood chip of the mock variant
ChipStep ==
  /\ variant = "mock"
  /\ activeMood' \in ChipMoods
  /\ text' = ChipText(activeMood')
  /\ moodColor' = EntryOf(moodColors(variant), activeMood', DefaultColor)
  /\ result' = result

\* a completion that stores a result with a mood, whose gradient is selected
StoreStep ==
  /\ Ends
  /\ result' # JNull /\ Truthy(result'.mood)
  /\ moodColor' = Lookup(moodColors(variant), ColorKey(result'), DefaultColor)

\* C18: moodColor changes only when a result with a mood is stored or a mock
\* chip is clicked; reset, a new submission and a failed analysis leave it
C18_ColorChangesOnlyOnResult ==
  [][/\ moodColor' # moodColor => (StoreStep \/ ChipStep)
     /\ (resetForm \/ tryAnother \/ (loading' /\ ~loading) \/ (Ends /\ error' # ""))
          => moodColor' = moodColor]_vars

\* after a reset the live page is idle and still shows the last mood's gradient
C18_Witness ==
  variant = "live" /\ St = "idle" /\ text = <<>> /\ res # NoRes /\ moodColor # DefaultColor

====
